---- MODULE Spec2Model ----
(***************************************************************************)
(* Model of the CCD read-out-noise / gain tools: calc_ron.py, calc_gain.py,*)
(* calc.py and build_superbias.py.                                         *)
(*                                                                         *)
(* Pixel arrays are small 2-D grids of integer ADU values tagged with the  *)
(* numpy dtype they are stored in.  Floating-point results are kept exact: *)
(* a value is NaN, +/-Inf, a reduced rational n/d, or the non-negative     *)
(* square root of a reduced rational (a standard deviation).               *)
(***************************************************************************)
EXTENDS Integers, Sequences, FiniteSets, TLC

VARIABLES
    pc,          \* position of the running program
    disk,        \* the frames stored under each file name
    window,      \* (x0, x1, y0, y1)
    files,       \* the file names handed to the estimator / builder
    ron_in,      \* ron_adu handed to calc_gain
    out,         \* what the estimator / builder returned or raised
    script,      \* which __main__ is running
    lines,       \* the lines of the frame-list file
    fits_files,  \* the non-blank lines, stripped
    i,           \* the loop index of the sequence driver
    results,     \* ron / gain_list
    calls,       \* the estimator invocations made so far, in order
    writes,      \* the artifacts written so far, in order
    report       \* the aggregate line printed at the end

vars == <<pc, disk, window, files, ron_in, out, script, lines, fits_files,
          i, results, calls, writes, report>>

(***************************************************************************)
(* Bounds of the model.                                                    *)
(***************************************************************************)
MaxDim == 2        \* frames are h x w with h, w in 1..MaxDim
MaxLines == 4      \* lines of a frame-list file
MaxFrames == 8     \* frames handed to build_superbias

None == [k |-> "none"]

(***************************************************************************)
(* Exact stand-ins for numpy float64 values.                               *)
(***************************************************************************)
Abs(x) == IF x < 0 THEN -x ELSE x

RECURSIVE Gcd(_, _)
Gcd(a, b) == IF b = 0 THEN a ELSE Gcd(b, a % b)

NaN == [k |-> "nan", n |-> 0, d |-> 1]

Inf(s) == [k |-> "inf", n |-> s, d |-> 0]

\* the rational n/d, d # 0, in lowest terms with a positive denominator
Rat(n, d) ==
    LET g == Gcd(Abs(n), Abs(d))
        s == IF d < 0 THEN -1 ELSE 1
    IN  [k |-> "rat", n |-> (s * n) \div g, d |-> (s * d) \div g]

\* np.sqrt of the rational n/d: NaN below zero, else the non-negative root
SqrtOf(n, d) ==
    LET q == Rat(n, d)
    IN  IF q.n < 0 THEN NaN ELSE [k |-> "sqrt", n |-> q.n, d |-> q.d]

IsFinite(x) == x.k \in {"rat", "sqrt"}

\* the comparison x >= 0 on float64: False for NaN
GeqZero(x) ==
    CASE x.k = "nan"  -> FALSE
      [] x.k = "inf"  -> x.n > 0
      [] x.k = "rat"  -> x.n >= 0
      [] x.k = "sqrt" -> TRUE

IsZero(x) == IsFinite(x) /\ x.n = 0

\* float64 division num/den of two rationals given as integer pairs, the
\* way numpy divides: x/0 is +/-Inf, 0/0 is NaN, no exception is raised
FloatDiv(an, ad, bn, bd) ==
    IF bn = 0
    THEN IF an = 0 THEN NaN ELSE Inf(IF an * ad > 0 THEN 1 ELSE -1)
    ELSE Rat(an * bd, ad * bn)

(***************************************************************************)
(* Frames: hdu[0].data of a FITS file.                                     *)
(***************************************************************************)
Cells(h, w) == (0 .. h - 1) \X (0 .. w - 1)

\* a frame whose pixels rise by one from `c` in row-major order
RampFrame(dtype, h, w, c) ==
    [dtype |-> dtype, h |-> h, w |-> w,
     pix |-> [rc \in Cells(h, w) |-> c + rc[1] * w + rc[2]]]

ConstFrame(dtype, h, w, c) ==
    [dtype |-> dtype, h |-> h, w |-> w, pix |-> [rc \in Cells(h, w) |-> c]]

\* a frame of level c whose first pixel holds c2
SpotFrame(dtype, h, w, c, c2) ==
    [dtype |-> dtype, h |-> h, w |-> w,
     pix |-> [rc \in Cells(h, w) |-> IF rc = <<0, 0>> THEN c2 ELSE c]]

\* np.array(data, dtype='float')
AsFloat(fr) == [fr EXCEPT !.dtype = "float64"]

\* numpy broadcasting of two 2-D shapes: each axis equal, or one of them 1
Broadcastable(a, b) ==
    /\ (a.h = b.h \/ a.h = 1 \/ b.h = 1)
    /\ (a.w = b.w \/ a.w = 1 \/ b.w = 1)

Max(a, b) == IF a > b THEN a ELSE b
Min(a, b) == IF a < b THEN a ELSE b

At(fr, r, c) ==
    fr.pix[<<IF fr.h = 1 THEN 0 ELSE r, IF fr.w = 1 THEN 0 ELSE c>>]

FloatAdd(a, b) ==
    LET h == Max(a.h, b.h)
        w == Max(a.w, b.w)
    IN  [dtype |-> "float64", h |-> h, w |-> w,
         pix |-> [rc \in Cells(h, w) |->
                    At(a, rc[1], rc[2]) + At(b, rc[1], rc[2])]]

\* a - b on two float64 arrays of broadcastable shape
FloatSub(a, b) ==
    LET h == Max(a.h, b.h)
        w == Max(a.w, b.w)
    IN  [dtype |-> "float64", h |-> h, w |-> w,
         pix |-> [rc \in Cells(h, w) |->
                    At(a, rc[1], rc[2]) - At(b, rc[1], rc[2])]]

(***************************************************************************)
(* data[y0:y1, x0:x1]: Python slicing clamps to the axis and counts a      *)
(* negative index from the end; it never raises.                           *)
(***************************************************************************)
SliceIdx(k, len) == IF k < 0 THEN Max(k + len, 0) ELSE Min(k, len)

SliceRange(a, b, len) == SliceIdx(a, len) .. (SliceIdx(b, len) - 1)

WindowCells(fr, win) ==
    SliceRange(win[3], win[4], fr.h) \X SliceRange(win[1], win[2], fr.w)

\* the Window invariant of the data model
WindowInside(fr, win) ==
    /\ 0 <= win[1] /\ win[1] < win[2] /\ win[2] <= fr.w
    /\ 0 <= win[3] /\ win[3] < win[4] /\ win[4] <= fr.h

(***************************************************************************)
(* Statistics over a set of cells S of an integer-valued grid v.           *)
(***************************************************************************)
RECURSIVE SumOver(_, _)
SumOver(S, v) ==
    IF S = {} THEN 0
    ELSE LET x == CHOOSE y \in S : TRUE
         IN  v[x] + SumOver(S \ {x}, v)

SumSq(S, v) == SumOver(S, [x \in S |-> v[x] * v[x]])

\* the k-th smallest value of v over S, k in 1..|S|
Kth(S, v, k) ==
    LET vals == {v[x] : x \in S}
    IN  CHOOSE u \in vals :
            /\ Cardinality({x \in S : v[x] < u}) < k
            /\ k <= Cardinality({x \in S : v[x] <= u})

\* twice np.median over S (an integer), S non-empty
Median2(S, v) ==
    LET n == Cardinality(S)
    IN  IF n % 2 = 1 THEN 2 * Kth(S, v, (n + 1) \div 2)
        ELSE Kth(S, v, n \div 2) + Kth(S, v, n \div 2 + 1)

\* n * (n - 1) * (sample variance), i.e. n * sum(x^2) - sum(x)^2
VarNum(S, v) ==
    Cardinality(S) * SumSq(S, v) - SumOver(S, v) * SumOver(S, v)

\* np.median / np.mean: NaN on an empty selection
MedianOf(S, v) == IF S = {} THEN NaN ELSE Rat(Median2(S, v), 2)

MeanOf(S, v) == IF S = {} THEN NaN ELSE Rat(SumOver(S, v), Cardinality(S))

\* np.std(..., ddof=1): NaN when fewer than two values are selected
StdDdof1(S, v) ==
    LET n == Cardinality(S)
    IN  IF n < 2 THEN NaN ELSE SqrtOf(VarNum(S, v), n * (n - 1))

\* x / np.sqrt(2) for x a standard deviation
DivSqrt2(x) == IF x.k = "sqrt" THEN SqrtOf(x.n, 2 * x.d) ELSE x

(***************************************************************************)
(* File names.  A path is a sequence of tokens; "/" separates directories  *)
(* and ".fit" is the substring that str.replace(".fit", "") removes.       *)
(***************************************************************************)
RECURSIVE LastSlash(_, _)
LastSlash(p, k) ==
    IF k = 0 THEN 0 ELSE IF p[k] = "/" THEN k ELSE LastSlash(p, k - 1)

\* os.path.basename
basename(p) == SubSeq(p, LastSlash(p, Len(p)) + 1, Len(p))

\* s.replace(".fit", "")
StripFit(s) == SelectSeq(s, LAMBDA t : t # ".fit")

\* f'bias_diff_{basename(f1).replace(".fit", "")}_{...}.fits'
DiffName(prefix, f1, f2, ext) ==
    <<prefix>> \o StripFit(basename(f1)) \o <<"_">> \o StripFit(basename(f2)) \o ext

(***************************************************************************)
(* calc_ron (calc_ron.py; calc.py has the same body without ".fits").      *)
(***************************************************************************)
RonWin(d, win) ==
    [status |-> "ok",
     ron_adu |-> DivSqrt2(StdDdof1(WindowCells(d, win), d.pix)),
     median |-> MedianOf(WindowCells(d, win), d.pix),
     mean |-> MeanOf(WindowCells(d, win), d.pix),
     n |-> Cardinality(WindowCells(d, win))]

calc_ron(dk, filename_bias1, filename_bias2, win) ==
    LET data1 == AsFloat(dk[filename_bias1])
        data2 == AsFloat(dk[filename_bias2])
    IN  IF ~Broadcastable(data1, data2)
        THEN [status |-> "ValueError", ron_adu |-> NaN, median |-> NaN,
              mean |-> NaN, n |-> 0]
        ELSE RonWin(FloatSub(data1, data2), win)

(***************************************************************************)
(* preprocess_light: hdu[0].data - superbias_data is evaluated in the      *)
(* arrays' own dtypes and only the result is converted to float.           *)
(***************************************************************************)
\* the dtype numpy gives a - b
ResultType(ta, tb) ==
    IF ta = "float64" \/ tb = "float64" THEN "float64"
    ELSE IF ta = tb THEN ta
    ELSE "int32"

\* an integer result stored in dtype t: 16-bit types wrap around
StoreAs(t, x) ==
    CASE t = "uint16" -> x % (2 ^ 16)
      [] t = "int16"  -> ((x + 2 ^ 15) % (2 ^ 16)) - 2 ^ 15
      [] OTHER        -> x

ArraySub(a, b) ==
    LET h == Max(a.h, b.h)
        w == Max(a.w, b.w)
        t == ResultType(a.dtype, b.dtype)
    IN  [dtype |-> t, h |-> h, w |-> w,
         pix |-> [rc \in Cells(h, w) |->
                    StoreAs(t, At(a, rc[1], rc[2]) - At(b, rc[1], rc[2]))]]

preprocess_light(dk, filename, superbias_data) ==
    IF ~Broadcastable(dk[filename], superbias_data)
    THEN [status |-> "ValueError"]
    ELSE [status |-> "ok", data |-> AsFloat(ArraySub(dk[filename], superbias_data))]

(***************************************************************************)
(* calc_gain (calc_gain.py; calc.py has the same arithmetic).              *)
(*                                                                         *)
(* With count1 = m1/2 and count2 = m2/2 the scaled difference is           *)
(*   data1 - data2 / count2 * count1 = (data1 * m2 - data2 * m1) / m2,     *)
(* so its statistics are those of the integer grid E = data1*m2 - data2*m1 *)
(* divided by m2 (by m2^2 for the variance).                               *)
(***************************************************************************)
\* ron_adu ** 2
Square(x) ==
    CASE x.k = "rat"  -> Rat(x.n * x.n, x.d * x.d)
      [] x.k = "sqrt" -> Rat(x.n, x.d)
      [] OTHER        -> NaN

\* a - b on float64 values that are rational or NaN
FloatMinus(a, b) ==
    IF a.k # "rat" \/ b.k # "rat" THEN NaN
    ELSE Rat(a.n * b.d - b.n * a.d, a.d * b.d)

\* a / b on float64 values that are rational or NaN
FloatQuot(a, b) ==
    IF a.k # "rat" \/ b.k # "rat" THEN NaN
    ELSE FloatDiv(a.n, a.d, b.n, b.d)

ScaledDiff(data1, data2, m1, m2) ==
    LET h == Max(data1.h, data2.h)
        w == Max(data1.w, data2.w)
    IN  [dtype |-> "float64", h |-> h, w |-> w,
         pix |-> [rc \in Cells(h, w) |->
                    At(data1, rc[1], rc[2]) * m2 - At(data2, rc[1], rc[2]) * m1]]

\* sigma ** 2 / 2 for sigma = np.std(data_diff[window], ddof=1)
HalfVariance(E, m2, win) ==
    LET S == WindowCells(E, win)
        n == Cardinality(S)
    IN  IF n < 2 THEN NaN
        ELSE Rat(VarNum(S, E.pix), 2 * n * (n - 1) * m2 * m2)

GainOf(data1, data2, ron_adu, win) ==
    LET S1 == WindowCells(data1, win)
        S2 == WindowCells(data2, win)
    IN  IF S1 = {} \/ S2 = {}
        THEN \* a median of nothing is NaN and so is all that follows
             [status |-> "ok", count |-> NaN, var_shot |-> NaN, gain |-> NaN]
        ELSE
          LET m1 == Median2(S1, data1.pix)
              m2 == Median2(S2, data2.pix)
              count == Rat(m1 + m2, 4)
          IN  IF m2 = 0
              THEN \* data2 / 0.0 is Inf or NaN in every pixel: sigma is NaN
                   [status |-> "ok", count |-> count, var_shot |-> NaN, gain |-> NaN]
              ELSE
                LET E == ScaledDiff(data1, data2, m1, m2)
                    var_shot == FloatMinus(HalfVariance(E, m2, win), Square(ron_adu))
                IN  [status |-> "ok", count |-> count, var_shot |-> var_shot,
                     gain |-> FloatQuot(count, var_shot)]

calc_gain(dk, filename1, filename2, filename_superbias, ron_adu, win) ==
    LET superbias_data == dk[filename_superbias]
        p1 == preprocess_light(dk, filename1, superbias_data)
        p2 == preprocess_light(dk, filename2, superbias_data)
    IN  IF p1.status # "ok" \/ p2.status # "ok"
        THEN [status |-> "ValueError", count |-> NaN, var_shot |-> NaN, gain |-> NaN]
        ELSE IF ~Broadcastable(p1.data, p2.data)
        THEN [status |-> "ValueError", count |-> NaN, var_shot |-> NaN, gain |-> NaN]
        ELSE GainOf(p1.data, p2.data, ron_adu, win)

(***************************************************************************)
(* build_superbias: sigma_clipped_stats(stack, sigma, maxiters, axis=0).   *)
(* Per pixel, over the samples v[j] of the frames j in S: the centre is    *)
(* the median, the spread the population standard deviation, and a sample  *)
(* survives a pass when centre - sigma*std <= v[j] <= centre + sigma*std.  *)
(* With M2 = 2*median and Vn = n*sum(v^2) - sum(v)^2 = n^2 * std^2 that is *)
(*   n^2 * (2*v[j] - M2)^2 <= (2*sigma)^2 * Vn.                            *)
(***************************************************************************)
sigma == 3
maxiters == 5

KeepsStrict(S, v, j) ==
    LET n == Cardinality(S)
        dev == 2 * v[j] - Median2(S, v)
    IN  n * n * dev * dev < (2 * sigma) * (2 * sigma) * VarNum(S, v)

Keeps(S, v, j) ==
    LET n == Cardinality(S)
        dev == 2 * v[j] - Median2(S, v)
    IN  n * n * dev * dev <= (2 * sigma) * (2 * sigma) * VarNum(S, v)

RECURSIVE SigmaClip(_, _, _)
SigmaClip(S, v, iters) ==
    IF iters = 0 \/ S = {} THEN S
    ELSE LET kept == {j \in S : Keeps(S, v, j)}
         IN  IF kept = S THEN S ELSE SigmaClip(kept, v, iters - 1)

\* the clipped mean of one pixel; NaN when every sample was clipped
ClippedMean(S, v) == MeanOf(SigmaClip(S, v, maxiters), v)

SameShape(frames) ==
    \A j \in DOMAIN frames : frames[j].h = frames[1].h /\ frames[j].w = frames[1].w

build_superbias(dk, names) ==
    LET data_list == [j \in DOMAIN names |-> dk[names[j]]]
    IN  IF names = <<>>
        THEN \* the mean of an empty stack is a scalar, which PrimaryHDU rejects
             [status |-> "TypeError"]
        ELSE IF ~SameShape(data_list)
        THEN \* np.array refuses a ragged list of arrays
             [status |-> "ValueError"]
        ELSE [status |-> "ok",
              h |-> data_list[1].h, w |-> data_list[1].w,
              image |-> [rc \in Cells(data_list[1].h, data_list[1].w) |->
                           ClippedMean(DOMAIN names,
                                       [j \in DOMAIN names |-> data_list[j].pix[rc]])]]

\* [line.strip() for line in f if line.strip()]
NonBlank(ls) == SelectSeq(ls, LAMBDA l : l # <<>>)

\* os.path.splitext(input_file)[0] + '.fits'
MasterName(input_file) ==
    (IF Len(input_file) > 1 /\ input_file[Len(input_file)] = ".txt"
     THEN SubSeq(input_file, 1, Len(input_file) - 1) ELSE input_file)
        \o <<".fit", "s">>

(***************************************************************************)
(* Inputs.                                                                 *)
(***************************************************************************)
Dims == 1 .. MaxDim

BiasLevels == {0, 1, 1000}

BiasFrames ==
    UNION {{ConstFrame("uint16", h, w, c), RampFrame("uint16", h, w, c)} :
             <<h, w, c>> \in Dims \X Dims \X BiasLevels}

\* (begin, end) pairs of a slice: inside, past the end, negative, empty
SliceArgs == {-1, 0, 1} \X (0 .. MaxDim + 1)

Windows == {<<x[1], x[2], y[1], y[2]>> : <<x, y>> \in SliceArgs \X SliceArgs}

Bias1Path == <<"bias1", ".fit">>
Bias2Path == <<"bias2", ".fit">>

Idle ==
    /\ ron_in = None /\ script = "none" /\ lines = <<>> /\ fits_files = <<>>
    /\ i = 0 /\ results = <<>> /\ calls = <<>> /\ report = None

(***************************************************************************)
(* One call of calc_ron on two stored bias frames.                         *)
(***************************************************************************)
InitRon ==
    /\ pc = "start"
    /\ \E f1 \in BiasFrames, f2 \in BiasFrames :
          disk = (Bias1Path :> f1) @@ (Bias2Path :> f2)
    /\ window \in Windows
    /\ files = <<Bias1Path, Bias2Path>>
    /\ out = None
    /\ writes = <<>>
    /\ Idle

RunCalcRon ==
    /\ pc = "start"
    /\ out' = calc_ron(disk, files[1], files[2], window)
    /\ writes' = IF out'.status = "ok"
                 THEN Append(writes,
                        [name |-> DiffName("bias_diff_", files[1], files[2], <<".fit", "s">>),
                         pair |-> files])
                 ELSE writes
    /\ pc' = "done"
    /\ UNCHANGED <<disk, window, files, ron_in, script, lines, fits_files,
                   i, results, calls, report>>

NextRon == RunCalcRon

SpecRon == InitRon /\ [][NextRon]_vars

bias1 == disk[Bias1Path]
bias2 == disk[Bias2Path]

\* C5: calc_ron fails whenever the two bias frames differ in shape or the
\* window is not contained in the frame; it never returns a ron_adu taken
\* from a truncated or empty window region.
C5_ShapeOrWindowErrorRaised ==
    (pc = "done" /\ (bias1.h # bias2.h \/ bias1.w # bias2.w
                       \/ ~WindowInside(bias1, window)))
        => out.status # "ok"

\* C6: identical bias frames and a window selecting at least two pixels give
\* ron_adu = 0, median = 0 and mean = 0.
C6_IdenticalFramesGiveZero ==
    (pc = "done" /\ bias1 = bias2
                 /\ Cardinality(WindowCells(bias1, window)) >= 2)
        => /\ out.status = "ok"
           /\ out.ron_adu.k = "sqrt" /\ out.ron_adu.n = 0
           /\ out.median = Rat(0, 1)
           /\ out.mean = Rat(0, 1)

C6_Witness ==
    /\ pc = "done"
    /\ bias1 = ConstFrame("uint16", MaxDim, MaxDim, 1000)
    /\ bias2 = bias1
    /\ window = <<0, MaxDim, 0, MaxDim>>
    /\ out.n = MaxDim * MaxDim
    /\ IsZero(out.ron_adu)

\* C7: whenever calc_ron returns, the returned ron_adu satisfies
\* ron_adu >= 0, also for a window selecting one pixel or none.
C7_RonNonNegative ==
    (pc = "done" /\ out.status = "ok") => GeqZero(out.ron_adu)

(***************************************************************************)
(* One call of preprocess_light on a stored light frame and a superbias.   *)
(***************************************************************************)
Light1Path == <<"light1", ".fit">>
Light2Path == <<"light2", ".fit">>
SuperbiasPath == <<"superbias", ".fit", "s">>

StoredValues(dtype) ==
    CASE dtype = "uint16" -> {0, 1, 100, 2 ^ 16 - 1}
      [] dtype = "int16"  -> {-(2 ^ 15), -1, 0, 2 ^ 15 - 1}
      [] OTHER            -> {0, 1, 100}

StoredFrames ==
    UNION {{SpotFrame(t, h, w, c, c2) : c \in StoredValues(t), c2 \in StoredValues(t)} :
             <<t, h, w>> \in {"uint16", "int16", "float64"} \X Dims \X Dims}

InitPre ==
    /\ pc = "start"
    /\ \E l \in StoredFrames, sb \in StoredFrames :
          disk = (Light1Path :> l) @@ (SuperbiasPath :> sb)
    /\ window = <<0, 0, 0, 0>>
    /\ files = <<Light1Path, SuperbiasPath>>
    /\ out = None
    /\ writes = <<>>
    /\ Idle

RunPreprocess ==
    /\ pc = "start"
    /\ out' = preprocess_light(disk, files[1], disk[files[2]])
    /\ pc' = "done"
    /\ UNCHANGED <<disk, window, files, ron_in, script, lines, fits_files,
                   i, results, calls, writes, report>>

NextPre == RunPreprocess

SpecPre == InitPre /\ [][NextPre]_vars

\* C3: every pixel of the bias-corrected signal is the true signed difference
\* light - superbias, for every pair of stored pixel types.
C3_SignedDifference ==
    (pc = "done" /\ out.status = "ok")
        => \A rc \in Cells(out.data.h, out.data.w) :
              out.data.pix[rc] = At(disk[Light1Path], rc[1], rc[2])
                                   - At(disk[SuperbiasPath], rc[1], rc[2])

(***************************************************************************)
(* One call of calc_gain on two light frames, a superbias and a ron_adu.   *)
(***************************************************************************)
LightLevels == {1, 2, 3}

LightFrames(h, w) ==
    UNION {{ConstFrame("uint16", h, w, c), RampFrame("uint16", h, w, c)} :
             c \in LightLevels}

\* a raw bias frame (uint16) or a build_superbias product (float64)
SuperbiasFrames(h, w) ==
    {ConstFrame(t, h, w, c) : t \in {"uint16", "float64"}, c \in {0, 1}}

\* ron_ccd1 = 2.21, ron_ccd2 = 2.00, zero, and what calc_ron can return
RonInputs == {Rat(0, 1), Rat(2, 1), Rat(221, 100), SqrtOf(1, 2), NaN}

GainSliceArgs == {0, 1} \X (0 .. MaxDim + 1)

GainWindows ==
    {<<x[1], x[2], y[1], y[2]>> : <<x, y>> \in GainSliceArgs \X GainSliceArgs}

InitGain ==
    /\ pc = "start"
    /\ \E h \in Dims, w \in Dims :
         \E l1 \in LightFrames(h, w), l2 \in LightFrames(h, w),
            sb \in SuperbiasFrames(h, w) :
              disk = (Light1Path :> l1) @@ (Light2Path :> l2) @@ (SuperbiasPath :> sb)
    /\ window \in GainWindows
    /\ files = <<Light1Path, Light2Path, SuperbiasPath>>
    /\ ron_in \in RonInputs
    /\ out = None
    /\ writes = <<>>
    /\ script = "none" /\ lines = <<>> /\ fits_files = <<>>
    /\ i = 0 /\ results = <<>> /\ calls = <<>> /\ report = None

RunCalcGain ==
    /\ pc = "start"
    /\ out' = calc_gain(disk, files[1], files[2], files[3], ron_in, window)
    /\ writes' = IF out'.status = "ok"
                 THEN Append(writes,
                        [name |-> DiffName("light_diff_", files[1], files[2], <<".fit", "s">>),
                         pair |-> <<files[1], files[2]>>])
                 ELSE writes
    /\ pc' = "done"
    /\ UNCHANGED <<disk, window, files, ron_in, script, lines, fits_files,
                   i, results, calls, report>>

NextGain == RunCalcGain

SpecGain == InitGain /\ [][NextGain]_vars

\* C4: whenever var_shot = sigma^2/2 - ron_adu^2 is zero or negative,
\* calc_gain fails or returns a non-finite gain, never a finite one.
C4_DegenerateGainNotFinite ==
    (pc = "done" /\ out.status = "ok"
        /\ out.var_shot.k = "rat" /\ out.var_shot.n <= 0)
        => ~IsFinite(out.gain)

\* the scenario of C4: zero superbias, two equal constant light frames,
\* ron_adu = 0, full window: var_shot = 0 and the gain is infinite
C4_ZeroVarianceCase ==
    /\ pc = "done"
    /\ disk[SuperbiasPath].pix = [rc \in Cells(MaxDim, MaxDim) |-> 0]
    /\ disk[Light1Path] = ConstFrame("uint16", MaxDim, MaxDim, 3)
    /\ disk[Light2Path] = disk[Light1Path]
    /\ ron_in = Rat(0, 1)
    /\ window = <<0, MaxDim, 0, MaxDim>>
    /\ out.count = Rat(3, 1)
    /\ out.var_shot = Rat(0, 1)
    /\ out.gain = Inf(1)

(***************************************************************************)
(* One run of build_superbias.py on a list of bias frames.                 *)
(***************************************************************************)
StackPath(j) == <<"bias", ToString(j), ".fit">>

StackLevels == {7, 1000}

ListFile == <<"biases", ".txt">>

\* the frames of a list: one shape, except that the first or the last frame
\* may have another one
StackShapes(k) ==
    {[j \in 1 .. k |-> <<hw[1], hw[2]>>] : hw \in Dims \X Dims}
      \cup {[j \in 1 .. k |-> IF j = odd THEN <<o[1], o[2]>> ELSE <<hw[1], hw[2]>>] :
              <<hw, o, odd>> \in (Dims \X Dims) \X (Dims \X Dims) \X ({1, k} \cap (1 .. k))}

InitSb ==
    /\ pc = "start"
    /\ \E k \in 0 .. MaxFrames :
         /\ \E shp \in StackShapes(k), lev \in [1 .. k -> StackLevels] :
               disk = [p \in {StackPath(j) : j \in 1 .. k} |->
                         LET j == CHOOSE q \in 1 .. k : StackPath(q) = p
                         IN  ConstFrame("uint16", shp[j][1], shp[j][2], lev[j])]
         /\ \E blank \in BOOLEAN :
               lines = [j \in 1 .. k |-> StackPath(j)]
                         \o (IF blank THEN <<<<>>>> ELSE <<>>)
    /\ window = <<0, 0, 0, 0>>
    /\ files = <<>>
    /\ out = None
    /\ writes = <<>>
    /\ ron_in = None /\ script = "build_superbias.py" /\ fits_files = <<>>
    /\ i = 0 /\ results = <<>> /\ calls = <<>> /\ report = None

RunBuildSuperbias ==
    /\ pc = "start"
    /\ files' = NonBlank(lines)
    /\ out' = build_superbias(disk, files')
    /\ writes' = IF out'.status = "ok"
                 THEN Append(writes, [name |-> MasterName(ListFile), pair |-> files'])
                 ELSE writes
    /\ pc' = "done"
    /\ UNCHANGED <<disk, window, ron_in, script, lines, fits_files,
                   i, results, calls, report>>

NextSb == RunBuildSuperbias

SpecSb == InitSb /\ [][NextSb]_vars

\* the stack holds k >= 2 frames of one shape whose pixels all equal c
ConstantStack(c) ==
    /\ Len(files) >= 2
    /\ \A j \in DOMAIN files :
          disk[files[j]] = ConstFrame("uint16", disk[files[1]].h, disk[files[1]].w, c)

\* C8: k >= 2 bias frames of one shape whose pixels all equal c give a
\* superbias whose every pixel equals c exactly (no sample is clipped).
C8_ConstantStackGivesConstant ==
    \A c \in StackLevels :
        (pc = "done" /\ ConstantStack(c))
            => /\ out.status = "ok"
               /\ \A rc \in Cells(out.h, out.w) : out.image[rc] = Rat(c, 1)
               /\ Len(writes) = 1

C8_Witness ==
    /\ pc = "done"
    /\ Len(files) = 5
    /\ ConstantStack(1000)
    /\ out.status = "ok"
    /\ out.h = MaxDim /\ out.w = MaxDim
    /\ out.image[<<0, 0>>] = Rat(1000, 1)

\* C9: build_superbias fails when the frames differ in dimensions and when
\* fewer than 2 frames are supplied, and then writes no superbias.
C9_FailsOnBadStack ==
    (pc = "done" /\ (Len(files) < 2
                       \/ ~SameShape([j \in DOMAIN files |-> disk[files[j]]])))
        => (out.status # "ok" /\ writes = <<>>)

(***************************************************************************)
(* The __main__ programs: the sequence drivers of calc_ron.py and          *)
(* calc_gain.py, and the single run of calc.py.                            *)
(***************************************************************************)
PathA1 == <<"d1", "/", "a", ".fit">>
PathA2 == <<"d2", "/", "a", ".fit">>
PathB == <<"b", ".fit">>
PathC == <<"c", ".fit", "s">>
DefaultSuperbias == <<"superbias_default", ".fit", "s">>

Paths == {PathA1, PathA2, PathB, PathC}

\* a frame-list file: one path per line, <<>> a blank line
ListLines == UNION {[1 .. n -> Paths \cup {<<>>}] : n \in 0 .. MaxLines}

\* win = win_ccd1, brought down to the size of the stored frames
win_ccd1 == <<0, MaxDim, 0, MaxDim>>

\* ron_ccd1 = 2.21
ron_ccd1 == Rat(221, 100)

\* the stored frames: all MaxDim x MaxDim, for the bias list, the light list
\* (with the default superbias) and the four frames of a calc.py run (two
\* bias frames, then two light frames that lie above them in every pixel)
StoredFor(prog) ==
    CASE prog = "calc_ron.py" ->
           (PathA1 :> RampFrame("uint16", MaxDim, MaxDim, 0))
        @@ (PathA2 :> RampFrame("uint16", MaxDim, MaxDim, 1))
        @@ (PathB :> ConstFrame("uint16", MaxDim, MaxDim, 1))
        @@ (PathC :> ConstFrame("uint16", MaxDim, MaxDim, 1000))
      [] prog = "calc_gain.py" ->
           (PathA1 :> RampFrame("uint16", MaxDim, MaxDim, 1))
        @@ (PathA2 :> RampFrame("uint16", MaxDim, MaxDim, 2))
        @@ (PathB :> ConstFrame("uint16", MaxDim, MaxDim, 3))
        @@ (PathC :> ConstFrame("uint16", MaxDim, MaxDim, 2))
        @@ (DefaultSuperbias :> ConstFrame("float64", MaxDim, MaxDim, 1))
      [] OTHER ->
           (PathA1 :> ConstFrame("uint16", MaxDim, MaxDim, 0))
        @@ (PathB :> SpotFrame("uint16", MaxDim, MaxDim, 0, 1))
        @@ (PathA2 :> RampFrame("uint16", MaxDim, MaxDim, 3))
        @@ (PathC :> ConstFrame("uint16", MaxDim, MaxDim, 4))
        @@ (DefaultSuperbias :> ConstFrame("float64", MaxDim, MaxDim, 0))

InitDriver ==
    /\ pc = "read"
    /\ script \in {"calc_ron.py", "calc_gain.py"}
    /\ disk = StoredFor(script)
    /\ lines \in ListLines
    /\ window = win_ccd1
    /\ ron_in = ron_ccd1
    /\ files = <<>> /\ out = None
    /\ fits_files = <<>> /\ i = 0 /\ results = <<>>
    /\ calls = <<>> /\ writes = <<>> /\ report = None

\* calc.py bias1 bias2 light1 light2 [--superbias S]; files[5] is args.superbias
InitCalc ==
    /\ pc = "main"
    /\ script = "calc.py"
    /\ disk = StoredFor(script)
    /\ lines = <<>>
    /\ window = win_ccd1
    /\ ron_in = None
    /\ \E b1 \in {PathA1, PathB}, b2 \in {PathA1, PathB},
          l1 \in {PathA2, PathC}, l2 \in {PathA2, PathC},
          sb \in {<<>>, DefaultSuperbias} :
            files = <<b1, b2, l1, l2, sb>>
    /\ out = None
    /\ fits_files = <<>> /\ i = 0 /\ results = <<>>
    /\ calls = <<>> /\ writes = <<>> /\ report = None

InitMain == InitDriver \/ InitCalc

\* with open(input_file) as f: fits_files = [...]
ReadList ==
    /\ pc = "read"
    /\ fits_files' = NonBlank(lines)
    /\ i' = 0
    /\ pc' = "loop"
    /\ UNCHANGED <<disk, window, files, ron_in, out, script, lines,
                   results, calls, writes, report>>

PairSame(fs, k) == <<fs[k + 1], fs[k + 1]>>

\* file1 = fits_files[i]; file2 = fits_files[i + 1]   (k counts from 0)
PairAt(fs, k) == <<fs[k + 1], fs[k + 2]>>

\* one pass of the loop of calc_ron.py
RonStep ==
    /\ pc = "loop" /\ script = "calc_ron.py"
    /\ i < Len(fits_files) - 1
    /\ LET pair == PairAt(fits_files, i)
           r == calc_ron(disk, pair[1], pair[2], window)
       IN  /\ calls' = Append(calls, pair)
           /\ out' = r
           /\ IF r.status = "ok"
              THEN /\ writes' = Append(writes,
                         [name |-> DiffName("bias_diff_", pair[1], pair[2], <<".fit", "s">>),
                          pair |-> pair])
                   /\ results' = Append(results, r.ron_adu)
                   /\ i' = i + 1
                   /\ pc' = "loop"
              ELSE /\ pc' = "raised"
                   /\ UNCHANGED <<writes, results, i>>
    /\ UNCHANGED <<disk, window, files, ron_in, script, lines, fits_files, report>>

\* one pass of the loop of calc_gain.py
GainStep ==
    /\ pc = "loop" /\ script = "calc_gain.py"
    /\ i < Len(fits_files) - 1
    /\ LET pair == PairAt(fits_files, i)
           r == calc_gain(disk, pair[1], pair[2], DefaultSuperbias, ron_in, window)
       IN  /\ calls' = Append(calls, pair)
           /\ out' = r
           /\ IF r.status = "ok"
              THEN /\ writes' = Append(writes,
                         [name |-> DiffName("light_diff_", pair[1], pair[2], <<".fit", "s">>),
                          pair |-> pair])
                   /\ results' = Append(results, r.gain)
                   /\ i' = i + 1
                   /\ pc' = "loop"
              ELSE /\ pc' = "raised"
                   /\ UNCHANGED <<writes, results, i>>
    /\ UNCHANGED <<disk, window, files, ron_in, script, lines, fits_files, report>>

\* np.median / np.mean of the result list: NaN (and a warning) when the list
\* is empty; of a non-empty list the value is kept as the list it is taken of
Aggregate(fn, xs) == IF xs = <<>> THEN NaN ELSE [k |-> fn, of |-> xs]

\* print(f'{np.median(ron)=:5.3f} {np.mean(ron)=:5.3f}')
Report ==
    /\ pc = "loop"
    /\ ~(i < Len(fits_files) - 1)
    /\ report' = [median |-> Aggregate("median", results),
                  mean |-> Aggregate("mean", results)]
    /\ pc' = "done"
    /\ UNCHANGED <<disk, window, files, ron_in, out, script, lines, fits_files,
                   i, results, calls, writes>>

\* calc.py: main(args) = calc_ron(bias1, bias2) then calc_gain(light1, light2)
CalcMain ==
    /\ pc = "main"
    /\ LET superbias == IF files[5] # <<>> THEN files[5] ELSE files[1]
           r == calc_ron(disk, files[1], files[2], window)
           g == calc_gain(disk, files[3], files[4], superbias, r.ron_adu, window)
           ron_write == [name |-> DiffName("bias_diff_", files[1], files[2], <<>>),
                         pair |-> <<files[1], files[2]>>]
       IN  IF r.status # "ok"
           THEN /\ out' = r /\ pc' = "raised"
                /\ calls' = <<<<files[1], files[2]>>>>
                /\ UNCHANGED <<ron_in, writes, results>>
           ELSE /\ ron_in' = r.ron_adu
                /\ out' = g
                /\ calls' = <<<<files[1], files[2]>>, <<files[3], files[4]>>>>
                /\ IF g.status # "ok"
                   THEN /\ writes' = <<ron_write>>
                        /\ results' = <<r.ron_adu>>
                        /\ pc' = "raised"
                   ELSE /\ writes' =
                             <<ron_write,
                               [name |-> DiffName("light_diff_", files[3], files[4], <<>>),
                                pair |-> <<files[3], files[4]>>],
                               [name |-> <<"light_diff", ".fit", "s">>,
                                pair |-> <<files[3], files[4]>>]>>
                        /\ results' = <<r.ron_adu, g.gain>>
                        /\ pc' = "done"
    /\ UNCHANGED <<disk, window, files, script, lines, fits_files, i, report>>

NextMain == ReadList \/ RonStep \/ GainStep \/ Report \/ CalcMain

SpecMain == InitMain /\ [][NextMain]_vars

Driver == script \in {"calc_ron.py", "calc_gain.py"}

\* the estimate the running driver's estimator gives for one pair
EstimateOf(pair) ==
    IF script = "calc_ron.py"
    THEN calc_ron(disk, pair[1], pair[2], window).ron_adu
    ELSE calc_gain(disk, pair[1], pair[2], DefaultSuperbias, ron_in, window).gain

\* C1: on a list of N >= 2 frames the driver has, when it reports the
\* aggregate, invoked the estimator exactly N-1 times, the k-th time on
\* (frame k, frame k+1), and holds exactly these N-1 estimates in that order.
C1_ConsecutivePairs ==
    (Driver /\ report # None /\ Len(NonBlank(lines)) >= 2)
        => LET fs == NonBlank(lines)
               N == Len(fs)
           IN  /\ Len(calls) = N - 1
               /\ Len(results) = N - 1
               /\ \A k \in 1 .. N - 1 :
                     /\ calls[k] = <<fs[k], fs[k + 1]>>
                     /\ results[k] = EstimateOf(<<fs[k], fs[k + 1]>>)

C1_Witness ==
    /\ Driver /\ pc = "done" /\ report # None
    /\ Len(NonBlank(lines)) = 3
    /\ Len(lines) = 4
    /\ Len(results) = 2
    /\ calls = <<<<PathA1, PathB>>, <<PathB, PathC>>>>

\* C2: on a list of fewer than 2 frames no estimator call is made, the
\* result list is empty, and no aggregate median/mean of the empty list is
\* reported.
C2_NoAggregateOfEmptyList ==
    (Driver /\ pc = "done" /\ Len(fits_files) < 2)
        => (calls = <<>> /\ results = <<>> /\ report = None)

\* C10: no two estimator invocations on different frame pairs write to the
\* same artifact name, so no pair's difference image is overwritten by
\* another pair's.
C10_DistinctArtifactPerPair ==
    \A a \in DOMAIN writes, b \in DOMAIN writes :
        writes[a].name = writes[b].name => writes[a].pair = writes[b].pair

====
